---- MODULE Spec2Model ----
(***************************************************************************)
(* A model of the notebook tabular_data_examples.ipynb: each code cell is  *)
(* an action over the notebook's global variables and the files of the     *)
(* data folder.  Texts are sequences of one-character strings, so that     *)
(* writing and parsing a file are computed character by character.         *)
(*                                                                         *)
(* The library calls are modelled by what the libraries do on the          *)
(* notebook's platform (Python 3.11, POSIX line separator):                *)
(*   to_csv    csv.writer with QUOTE_MINIMAL, quotechar '"', doublequote,  *)
(*             lineterminator os.linesep = "\n"                            *)
(*   read_csv  the C tokenizer (CR, LF and CRLF end a line, blank lines    *)
(*             are skipped), header inference, NA detection and the        *)
(*             per-column type inference                                   *)
(***************************************************************************)
EXTENDS Integers, Sequences, FiniteSets, TLC

VARIABLES
    pc,                     \* the next code cell (or statement) of the section being run
    files,                  \* the data folder: file name -> content
    source,                 \* 2.1: the data set the CSV files of the data folder were saved from
    df_csv_comma_sep,       \* 2.1: pd.read_csv("dataset.csv")
    df_csv_semicolon_sep,   \* 2.1: pd.read_csv("dataset_semicolon.csv"), then with sep=";"
    df_csv_no_heading,      \* 2.1: pd.read_csv("dataset_no_heading.csv", header=None)
    df_reread,              \* the exported CSV file read again with the same delimiter
    df,                     \* 1.1: the list read_pdf returns; 1.2: pd.DataFrame(data)
    df_single_table,        \* 1.1: read_pdf(..., multiple_tables=False, lattice=True)
    table,                  \* 1.2: document.tables[0], its rows of cell texts
    keys,                   \* 1.2: the header tuple, None before row 0 is seen
    data,                   \* 1.2: the list of row dicts
    i,                      \* 1.2: the loop index of enumerate(table.rows)
    xmlschema_doc,          \* 2.3: etree.parse(xsd_path)
    xmlschema,              \* 2.3: etree.XMLSchema(xmlschema_doc)
    xml_doc,                \* 2.3: etree.parse(xml_path)
    result,                 \* 2.3: xmlschema.validate(xml_doc)
    tree,                   \* 2.3: etree.parse(path, parser) with dtd_validation=True
    stdout,                 \* the lines the cells have printed
    exception,              \* the exception that ended the running cell, None if none
    df_json,                \* 2.4: pd.read_json("dataset.json", orient="records")
    json_data,              \* 2.4: json.load(f)
    content,                \* 1.2: the generator of the DOCX content, then the joined text; 2.2, 2.3: text read from a file
    docx_list,              \* 1.2: the list unpacked from the generator
    handles,                \* the files and connections that are open
    g,                      \* 2.5: the rdflib Graph
    predicate_query,        \* 2.5: g.query(...), the result rows
    df_csv,                 \* 2.6: pd.read_csv("dataset.csv")
    df_parquet,             \* 2.6: pd.read_parquet("dataset.parquet")
    val,                    \* 2.6: the key value of the query
    query_csv,              \* 2.6: df_csv.query("key == @val"), the cell's output
    query_parquet,          \* 2.6: df_parquet.query("key == @val"), the cell's output
    words,                  \* 2.2: content.partition(partition1)
    words_after_heading1,   \* 2.2: content.split(partition1, 1)[1]
    words_before_heading2   \* 2.2: words_after_heading1.split(partition2, 1)[0]

csvVars == <<source, df_csv_comma_sep, df_csv_semicolon_sep, df_csv_no_heading, df_reread>>
pdfVars == <<df_single_table>>
docxVars == <<table, keys, data, i>>
xmlVars == <<xmlschema_doc, xmlschema, xml_doc, result, tree>>
jsonVars == <<df_json, json_data>>
outVars == <<stdout, exception>>
textVars == <<content, docx_list>>
rdfVars == <<g, predicate_query>>
parquetVars == <<df_csv, df_parquet, val, query_csv, query_parquet>>
splitVars == <<words, words_after_heading1, words_before_heading2>>
restVars == <<textVars, rdfVars, parquetVars, handles, splitVars>>

vars == <<pc, files, df, csvVars, pdfVars, docxVars, xmlVars, jsonVars, outVars, restVars>>

None == "None"

----------------------------------------------------------------------------
(* Characters and values *)

CR == "\r"
LF == "\n"
COMMA == ","
SEMI == ";"
QUOTE == "\""

Range(s) == {s[k] : k \in 1..Len(s)}

DigitChars == <<"0", "1", "2", "3", "4", "5", "6", "7", "8", "9">>

RECURSIVE Digits(_)
Digits(n) == IF n < 10 THEN <<DigitChars[n + 1]>>
             ELSE Digits(n \div 10) \o <<DigitChars[(n % 10) + 1]>>

\* A cell of a DataFrame: a text (object dtype), NaN, an int64 or a float64
\* with an integral value.  Numbers keep their canonical digits.
NaN == <<"NaN">>
IntVal(digits) == <<"int64">> \o digits
FloatVal(digits) == <<"float64">> \o digits
IsNaN(v) == v = NaN
IsInt(v) == Len(v) > 0 /\ v[1] = "int64"
IsFloat(v) == Len(v) > 0 /\ v[1] = "float64"
IsText(v) == ~IsNaN(v) /\ ~IsInt(v) /\ ~IsFloat(v)

\* A DataFrame: column labels, the number of leading index columns (an
\* implicit index), and the rows; or the exception the call ended with.
Unset == [kind |-> "unset", columns |-> <<>>, leading |-> 0, rows |-> <<>>]
Frame(columns, leading, rows) ==
    [kind |-> "frame", columns |-> columns, leading |-> leading, rows |-> rows]
Raised(what) == [kind |-> what, columns |-> <<>>, leading |-> 0, rows |-> <<>>]

----------------------------------------------------------------------------
(* csv.writer, as DataFrame.to_csv drives it *)

lineterminator == <<LF>>

NeedsQuoteNoTerminator(field, sep) ==
    \E k \in 1..Len(field) : field[k] \in {sep, QUOTE}

\* QUOTE_MINIMAL: a field is quoted when it holds the delimiter, the quote
\* character or a character of the line terminator.
NeedsQuote(field, sep) ==
    \E k \in 1..Len(field) : field[k] \in ({sep, QUOTE} \cup Range(lineterminator))

RECURSIVE DoubleQuotes(_)
DoubleQuotes(field) ==
    IF field = <<>> THEN <<>>
    ELSE (IF Head(field) = QUOTE THEN <<QUOTE, QUOTE>> ELSE <<Head(field)>>)
         \o DoubleQuotes(Tail(field))

\* A row of one empty field is written as "" (else it would be a blank line).
WriteField(field, sep, alone) ==
    IF NeedsQuote(field, sep) \/ (alone /\ field = <<>>)
    THEN <<QUOTE>> \o DoubleQuotes(field) \o <<QUOTE>>
    ELSE field

RECURSIVE JoinFields(_, _)
JoinFields(row, sep) ==
    IF row = <<>> THEN <<>>
    ELSE IF Len(row) = 1 THEN row[1]
    ELSE row[1] \o <<sep>> \o JoinFields(Tail(row), sep)

writerow(row, sep) ==
    JoinFields([k \in 1..Len(row) |-> WriteField(row[k], sep, Len(row) = 1)], sep)
    \o lineterminator

RECURSIVE writerows(_, _)
writerows(rows, sep) ==
    IF rows = <<>> THEN <<>> ELSE writerow(Head(rows), sep) \o writerows(Tail(rows), sep)

\* How to_csv prints a cell: na_rep = "", numbers by their repr.
FormatValue(v) ==
    IF IsNaN(v) THEN <<>>
    ELSE IF IsInt(v) THEN Tail(v)
    ELSE IF IsFloat(v) THEN Tail(v) \o <<".", "0">>
    ELSE v

FormatRow(row) == [k \in 1..Len(row) |-> FormatValue(row[k])]

DropLeading(row, n) == SubSeq(row, n + 1, Len(row))

to_csv_with_index(frame) ==
    writerow(<<<<>>>> \o FormatRow(frame.columns), COMMA)
    \o writerows([r \in 1..Len(frame.rows) |->
                    <<Digits(r - 1)>> \o FormatRow(DropLeading(frame.rows[r], frame.leading))],
                 COMMA)

\* df.to_csv(path, index=False): the header row, then one row per record.
to_csv(frame) ==
    writerow(FormatRow(frame.columns), COMMA)
    \o writerows([r \in 1..Len(frame.rows) |->
                    FormatRow(DropLeading(frame.rows[r], frame.leading))], COMMA)

----------------------------------------------------------------------------
(* pd.read_csv: the C tokenizer *)

TokInit == [state |-> "START_RECORD", field |-> <<>>, line |-> <<>>, lines |-> <<>>]
EndField(t) == [t EXCEPT !.line = Append(t.line, t.field), !.field = <<>>]
EndLine(t) ==
    [t EXCEPT !.lines = Append(t.lines, t.line), !.line = <<>>, !.state = "START_RECORD"]
PushChar(t, c) == [t EXCEPT !.field = Append(t.field, c)]

\* One character of the input.  With no lineterminator given, LF ends a
\* line and so does CR (a following LF belongs to it); inside a quoted
\* field both are data.  Blank lines are skipped (skip_blank_lines=True).
RECURSIVE tokenize_char(_, _, _)
tokenize_char(t, c, sep) ==
    CASE t.state = "START_RECORD" ->
            IF c = LF THEN t
            ELSE IF c = CR THEN [t EXCEPT !.state = "EAT_CRNL_NOP"]
            ELSE tokenize_char([t EXCEPT !.state = "START_FIELD"], c, sep)
      [] t.state = "START_FIELD" ->
            IF c = LF THEN EndLine(EndField(t))
            ELSE IF c = CR THEN [EndField(t) EXCEPT !.state = "EAT_CRNL"]
            ELSE IF c = QUOTE THEN [t EXCEPT !.state = "IN_QUOTED_FIELD"]
            ELSE IF c = sep THEN EndField(t)
            ELSE [PushChar(t, c) EXCEPT !.state = "IN_FIELD"]
      [] t.state = "IN_FIELD" ->
            IF c = LF THEN EndLine(EndField(t))
            ELSE IF c = CR THEN [EndField(t) EXCEPT !.state = "EAT_CRNL"]
            ELSE IF c = sep THEN [EndField(t) EXCEPT !.state = "START_FIELD"]
            ELSE PushChar(t, c)
      [] t.state = "IN_QUOTED_FIELD" ->
            IF c = QUOTE THEN [t EXCEPT !.state = "QUOTE_IN_QUOTED_FIELD"]
            ELSE PushChar(t, c)
      [] t.state = "QUOTE_IN_QUOTED_FIELD" ->
            IF c = QUOTE THEN [PushChar(t, c) EXCEPT !.state = "IN_QUOTED_FIELD"]
            ELSE IF c = sep THEN [EndField(t) EXCEPT !.state = "START_FIELD"]
            ELSE IF c = LF THEN EndLine(EndField(t))
            ELSE IF c = CR THEN [EndField(t) EXCEPT !.state = "EAT_CRNL"]
            ELSE [PushChar(t, c) EXCEPT !.state = "IN_FIELD"]
      [] t.state = "EAT_CRNL" ->
            IF c = LF THEN EndLine(t)
            ELSE tokenize_char(EndLine(t), c, sep)
      [] t.state = "EAT_CRNL_NOP" ->
            IF c = LF \/ c = sep THEN [t EXCEPT !.state = "START_RECORD"]
            ELSE tokenize_char([t EXCEPT !.state = "START_RECORD"], c, sep)

RECURSIVE tokenize_bytes(_, _, _)
tokenize_bytes(t, text, sep) ==
    IF text = <<>> \/ t.state = "ERROR" THEN t
    ELSE tokenize_bytes(tokenize_char(t, Head(text), sep), Tail(text), sep)

\* The end of the input closes the field and the line being read; inside a
\* quoted field it is an error ("EOF inside string").
parser_handle_eof(t) ==
    CASE t.state \in {"START_RECORD", "EAT_CRNL_NOP"} -> t
      [] t.state = "IN_QUOTED_FIELD" -> [t EXCEPT !.state = "ERROR"]
      [] t.state \in {"IN_FIELD", "START_FIELD", "QUOTE_IN_QUOTED_FIELD"} ->
            EndLine(EndField(t))
      [] t.state = "EAT_CRNL" -> EndLine(t)

tokenize_semicolon_too(text, sep) ==
    parser_handle_eof(tokenize_bytes(TokInit, [k \in 1..Len(text) |->
                                        IF text[k] = SEMI THEN sep ELSE text[k]], sep))

\* The lines of the file, each the sequence of its fields.
tokenize(text, sep) == parser_handle_eof(tokenize_bytes(TokInit, text, sep))

----------------------------------------------------------------------------
(* pd.read_csv: column names, NA detection and type inference *)

\* The default na_values that the characters of the model can spell.
NaTexts == {<<>>, <<"N", "A">>}

IsIntText(text) == text # <<>> /\ Range(text) \subseteq Range(DigitChars)

RECURSIVE Canon(_)
Canon(digits) ==
    IF Len(digits) > 1 /\ Head(digits) = "0" THEN Canon(Tail(digits)) ELSE digits

\* A float with an integral value, as to_csv prints one: digits, ".", zeros.
IsFloatText(text) ==
    \E k \in 2..Len(text) :
        /\ text[k] = "."
        /\ IsIntText(SubSeq(text, 1, k - 1))
        /\ \A j \in (k + 1)..Len(text) : text[j] = "0"

IntPart(text) ==
    SubSeq(text, 1, (CHOOSE k \in 1..(Len(text) + 1) : (k = Len(text) + 1 \/ text[k] = ".")
                                      /\ \A j \in 1..(k - 1) : text[j] # ".") - 1)

\* One column: NA markers become NaN; a column whose other cells are all
\* integers becomes int64, or float64 when it also has NaN or a float; any
\* other column keeps its texts (object dtype).
ConvertColumn(col) ==
    LET present == {k \in 1..Len(col) : col[k] \notin NaTexts}
        numeric == present # {} /\ \A k \in present : IsIntText(col[k]) \/ IsFloatText(col[k])
        floats == present # 1..Len(col) \/ \E k \in present : IsFloatText(col[k])
    IN [k \in 1..Len(col) |->
          IF k \notin present THEN NaN
          ELSE IF ~numeric THEN col[k]
          ELSE IF floats THEN FloatVal(Canon(IntPart(col[k])))
          ELSE IntVal(Canon(col[k]))]

\* A short line is filled with empty fields up to the width of the table.
PadLine(line, width) ==
    [k \in 1..width |-> IF k <= Len(line) THEN line[k] ELSE <<>>]

ConvertRows(rows, width) ==
    LET cols == [j \in 1..width |-> ConvertColumn([r \in 1..Len(rows) |-> rows[r][j]])]
    IN [r \in 1..Len(rows) |-> [j \in 1..width |-> cols[j][r]]]

\* Header names: an empty name becomes "Unnamed: <position>", a repeated
\* name gets the suffix ".<count>".
DedupNames(names) ==
    LET named == [k \in 1..Len(names) |->
                    IF names[k] = <<>> THEN <<"Unnamed: ">> \o Digits(k - 1) ELSE names[k]]
        earlier(k) == Cardinality({j \in 1..(k - 1) : named[j] = named[k]})
    IN [k \in 1..Len(names) |->
          IF earlier(k) = 0 THEN named[k] ELSE named[k] \o <<".">> \o Digits(earlier(k))]

Max(a, b) == IF a >= b THEN a ELSE b

FrameOfLines(t) ==
    LET lines == t.lines
        names == lines[1]
        rows == Tail(lines)
        \* the first data line may be wider than the header: its leading
        \* fields are the index; every later line is checked against it
        width == IF rows = <<>> THEN Len(names) ELSE Max(Len(names), Len(rows[1]))
    IN IF t.state = "ERROR" THEN Raised("ParserError")
       ELSE IF lines = <<>> THEN Raised("EmptyDataError")
       ELSE IF \E k \in 2..Len(rows) : Len(rows[k]) > width THEN Raised("ParserError")
       ELSE Frame(DedupNames(names), width - Len(names),
                  ConvertRows([r \in 1..Len(rows) |-> PadLine(rows[r], width)], width))

read_csv_header_inferred(text, sep) == FrameOfLines(tokenize(text, sep))

\* header=None: every line is data, the columns are labelled 0..N-1 by a
\* RangeIndex, N the width of the first line.  A later line with more
\* fields than the first ends the call with a ParserError.
read_csv_no_header(text, sep) ==
    LET t == tokenize(text, sep)
        lines == t.lines
        width == Len(lines[1])
    IN IF t.state = "ERROR" THEN Raised("ParserError")
       ELSE IF lines = <<>> THEN Raised("EmptyDataError")
       ELSE IF \E k \in 2..Len(lines) : Len(lines[k]) > width THEN Raised("ParserError")
       ELSE Frame([j \in 1..width |-> IntVal(Digits(j - 1))], 0,
                  ConvertRows([r \in 1..Len(lines) |-> PadLine(lines[r], width)], width))

read_csv_sniffing(text, sep) == FrameOfLines(tokenize_semicolon_too(text, sep))

\* pd.read_csv(path, sep=sep) with header="infer": the first line names the
\* columns.
read_csv(text, sep) == FrameOfLines(tokenize(text, sep))

----------------------------------------------------------------------------
(* Section 2.1: the CSV files of the data folder and the cells that read them *)

MaxRows == 1
Widths == {1, 2}
HeadTexts == {<<"h">>, <<"k">>}
CellTexts == {<<>>, <<"a">>, <<"0", "1">>, <<"N", "A">>, <<"a", COMMA, "b">>,
              <<"a", SEMI, "b">>, <<"a", QUOTE>>, <<"a", CR, "b">>, <<"a", LF, "b">>}

\* A data set: the header names and the rows, every cell a text.
DataSets ==
    UNION {{[header |-> h, rows |-> r] :
               h \in [1..w -> HeadTexts],
               r \in UNION {[1..n -> [1..w -> CellTexts]] : n \in 0..MaxRows}} :
           w \in Widths}

\* The files of the data folder are valid CSV: a field holding the
\* delimiter, a quote or a line break is quoted.
SavedField(field, sep, alone) ==
    IF (\E k \in 1..Len(field) : field[k] \in {sep, QUOTE, CR, LF}) \/ (alone /\ field = <<>>)
    THEN <<QUOTE>> \o DoubleQuotes(field) \o <<QUOTE>>
    ELSE field

RECURSIVE SavedAs(_, _)
SavedAs(rows, sep) ==
    IF rows = <<>> THEN <<>>
    ELSE JoinFields([k \in 1..Len(rows[1]) |->
                        SavedField(rows[1][k], sep, Len(rows[1]) = 1)], sep)
         \o <<LF>> \o SavedAs(Tail(rows), sep)

DataFolder(ds) ==
    [name \in {"dataset.csv", "dataset_semicolon.csv", "dataset_no_heading.csv"} |->
        CASE name = "dataset.csv" -> SavedAs(<<ds.header>> \o ds.rows, COMMA)
          [] name = "dataset_semicolon.csv" -> SavedAs(<<ds.header>> \o ds.rows, SEMI)
          [] name = "dataset_no_heading.csv" -> SavedAs(ds.rows, COMMA)]

\* The variables of the other sections, while one section runs.
IdleCsv ==
    /\ source = None
    /\ df_csv_comma_sep = Unset
    /\ df_csv_semicolon_sep = Unset
    /\ df_csv_no_heading = Unset
    /\ df_reread = Unset
IdlePdf == df = <<>> /\ df_single_table = <<>>
IdleDocx == table = <<>> /\ keys = None /\ data = <<>> /\ i = 0
NoTree == [kind |-> "None"]
IdleXml ==
    /\ xmlschema_doc = NoTree
    /\ xmlschema = NoTree
    /\ xml_doc = NoTree
    /\ result = None
    /\ tree = NoTree
IdleJson == df_json = Unset /\ json_data = <<>>
IdleOut == stdout = <<>> /\ exception = None
NotAssigned == [kind |-> "None"]
IdleText == content = NotAssigned /\ docx_list = <<>>
IdleRdf == g = <<>> /\ predicate_query = <<>>
IdleParquet ==
    /\ df_csv = Unset
    /\ df_parquet = Unset
    /\ val = <<>>
    /\ query_csv = Unset
    /\ query_parquet = Unset
IdleSplit ==
    /\ words = NotAssigned
    /\ words_after_heading1 = NotAssigned
    /\ words_before_heading2 = NotAssigned
IdleRest == IdleText /\ IdleRdf /\ IdleParquet /\ handles = {} /\ IdleSplit

notCsv == <<df, pdfVars, docxVars, xmlVars, jsonVars, outVars, restVars>>

InitCsv ==
    /\ source \in DataSets
    /\ files = DataFolder(source)
    /\ pc = "read_csv_comma_sep"
    /\ df_csv_comma_sep = Unset
    /\ df_csv_semicolon_sep = Unset
    /\ df_csv_no_heading = Unset
    /\ df_reread = Unset
    /\ IdlePdf /\ IdleDocx /\ IdleXml /\ IdleJson /\ IdleOut /\ IdleRest

\* df_csv_comma_sep = pd.read_csv("dataset.csv")
ReadCsvCommaSep ==
    /\ pc = "read_csv_comma_sep"
    /\ df_csv_comma_sep' = read_csv(files["dataset.csv"], COMMA)
    /\ pc' = "read_csv_semicolon_default"
    /\ UNCHANGED <<files, source, df_csv_semicolon_sep, df_csv_no_heading, df_reread, notCsv>>

\* df_csv_semicolon_sep = pd.read_csv("dataset_semicolon.csv")
ReadCsvSemicolonDefault ==
    /\ pc = "read_csv_semicolon_default"
    /\ df_csv_semicolon_sep' = read_csv(files["dataset_semicolon.csv"], COMMA)
    /\ pc' = "read_csv_semicolon_sep"
    /\ UNCHANGED <<files, source, df_csv_comma_sep, df_csv_no_heading, df_reread, notCsv>>

\* df_csv_semicolon_sep = pd.read_csv("dataset_semicolon.csv", sep=";")
ReadCsvSemicolonSep ==
    /\ pc = "read_csv_semicolon_sep"
    /\ df_csv_semicolon_sep' = read_csv(files["dataset_semicolon.csv"], SEMI)
    /\ pc' = "read_csv_no_heading"
    /\ UNCHANGED <<files, source, df_csv_comma_sep, df_csv_no_heading, df_reread, notCsv>>

\* df_csv_no_heading = pd.read_csv("dataset_no_heading.csv", header=None)
ReadCsvNoHeading ==
    /\ pc = "read_csv_no_heading"
    /\ df_csv_no_heading' = read_csv_no_header(files["dataset_no_heading.csv"], COMMA)
    /\ pc' = "to_csv"
    /\ UNCHANGED <<files, source, df_csv_comma_sep, df_csv_semicolon_sep, df_reread, notCsv>>

\* <frame>.to_csv(path, index=False), on the frame read from dataset.csv
ExportCsv ==
    /\ pc = "to_csv"
    /\ df_csv_comma_sep.kind = "frame"
    /\ files' = files @@ ("dataset_exported.csv" :> to_csv(df_csv_comma_sep))
    /\ pc' = "reread"
    /\ UNCHANGED <<csvVars, notCsv>>

\* the exported file read again with the same delimiter
ReadExported ==
    /\ pc = "reread"
    /\ df_reread' = read_csv(files["dataset_exported.csv"], COMMA)
    /\ pc' = "done_csv"
    /\ UNCHANGED <<files, source, df_csv_comma_sep, df_csv_semicolon_sep, df_csv_no_heading, notCsv>>

NextCsv ==
    \/ ReadCsvCommaSep
    \/ ReadCsvSemicolonDefault
    \/ ReadCsvSemicolonSep
    \/ ReadCsvNoHeading
    \/ ExportCsv
    \/ ReadExported

SpecCsv == InitCsv /\ [][NextCsv]_vars

----------------------------------------------------------------------------
(* Properties of section 2.1 *)

CellsOf(frame) == UNION {Range(DropLeading(frame.rows[r], frame.leading)) : r \in 1..Len(frame.rows)}
HasChar(frame, chars) == \E v \in CellsOf(frame) \cup Range(frame.columns) : Range(v) \cap chars # {}

SameRecordCount ==
    df_reread.kind = "frame" /\ Len(df_reread.rows) = Len(df_csv_comma_sep.rows)

\* C1 as stated: a record set with a CR or an LF inside a cell is exported so
\* that reading the file again gives the same number of records.
C1_AnyTerminatorKeepsCount ==
    (pc = "done_csv" /\ HasChar(df_csv_comma_sep, {CR, LF})) => SameRecordCount

\* C1 amended: a record set with an LF inside a cell and no bare CR in any
\* cell is exported with that field quoted, and reading the file again gives
\* the same number of records.
C1_LineFeedKeepsCount ==
    (pc = "done_csv" /\ HasChar(df_csv_comma_sep, {LF}) /\ ~HasChar(df_csv_comma_sep, {CR}))
        => SameRecordCount

C1_Witness ==
    /\ pc = "done_csv"
    /\ HasChar(df_csv_comma_sep, {LF})
    /\ ~HasChar(df_csv_comma_sep, {CR})
    /\ Len(df_csv_comma_sep.rows) >= 1
    /\ \E k \in 1..Len(files["dataset_exported.csv"]) : files["dataset_exported.csv"][k] = QUOTE

\* The header and the records a CSV text holds.
RecordsOf(text) == tokenize(text, COMMA).lines
SourceRecords == <<source.header>> \o source.rows

ReadAsText(ds) ==
    \A r \in 1..Len(ds.rows) : \A j \in 1..Len(ds.header) :
        ds.rows[r][j] \notin NaTexts /\ ~IsIntText(ds.rows[r][j]) /\ ~IsFloatText(ds.rows[r][j])
DistinctNames(ds) ==
    /\ \A j \in 1..Len(ds.header) : ds.header[j] # <<>>
    /\ \A j, k \in 1..Len(ds.header) : ds.header[j] = ds.header[k] => j = k
NoBareCR(ds) ==
    \A r \in 1..Len(ds.rows) : \A j \in 1..Len(ds.header) : CR \notin Range(ds.rows[r][j])

RECURSIVE SplitLines(_, _)
SplitLines(text, line) ==
    IF text = <<>> THEN (IF line = <<>> THEN <<>> ELSE <<line>>)
    ELSE IF Head(text) = LF THEN <<line>> \o SplitLines(Tail(text), <<>>)
    ELSE SplitLines(Tail(text), Append(line, Head(text)))

PhysicalLines(text) == SplitLines(text, <<>>)

\* One column, and each row (the header row too) holds its whole line.
OneColumnOfLines(frame, text) ==
    /\ frame.kind = "frame"
    /\ Len(frame.columns) = 1
    /\ <<frame.columns>> \o frame.rows = [k \in 1..Len(PhysicalLines(text)) |-> <<PhysicalLines(text)[k]>>]

MultiColumn(frame) ==
    /\ frame.kind = "frame"
    /\ Len(frame.columns) = Len(source.header)
    /\ frame.leading = 0
    /\ Len(frame.rows) = Len(source.rows)
    /\ \A r \in 1..Len(frame.rows) : Len(frame.rows[r]) = Len(source.header)

\* C3 as stated: every semicolon-delimited file read with the default ","
\* gives one column whose rows hold the physical lines, without an error, and
\* read with sep=";" gives the multi-column record set.
C3_AlwaysOneColumn ==
    Len(source.header) >= 2 =>
        /\ pc = "read_csv_semicolon_sep" =>
              OneColumnOfLines(df_csv_semicolon_sep, files["dataset_semicolon.csv"])
        /\ pc = "read_csv_no_heading" => MultiColumn(df_csv_semicolon_sep)

NoCommaNoQuote(text) == Range(text) \cap {COMMA, QUOTE} = {}

\* C3 amended: a semicolon-delimited file of two or more columns that holds
\* no comma and no quote character, read with the default ",", gives one
\* column whose rows hold the physical lines, without an error; every
\* semicolon-delimited file read with sep=";" gives the multi-column record
\* set.
C3_OneColumnWithoutCommas ==
    Len(source.header) >= 2 =>
        /\ (pc = "read_csv_semicolon_sep" /\ NoCommaNoQuote(files["dataset_semicolon.csv"]))
              => OneColumnOfLines(df_csv_semicolon_sep, files["dataset_semicolon.csv"])
        /\ pc = "read_csv_no_heading" => MultiColumn(df_csv_semicolon_sep)

C3_Witness ==
    /\ pc = "read_csv_semicolon_sep"
    /\ Len(source.header) >= 2
    /\ Len(source.rows) >= 1
    /\ NoCommaNoQuote(files["dataset_semicolon.csv"])
    /\ Len(df_csv_semicolon_sep.columns) = 1

\* The value read for a cell text: the text, NaN for an NA marker, or the
\* number it spells.
ValueOfText(v, text) ==
    \/ v = text
    \/ text \in NaTexts /\ v = NaN
    \/ IsIntText(text) /\ v \in {IntVal(Canon(text)), FloatVal(Canon(text))}

\* C4: a file of N columns read with header=None has the labels 0..N-1 from
\* left to right, as many records as the file has rows, and its first row as
\* the first record.
C4_NoHeaderKeepsFirstRow ==
    (df_csv_no_heading # Unset /\ Len(source.rows) >= 1) =>
        /\ df_csv_no_heading.kind = "frame"
        /\ df_csv_no_heading.columns =
              [j \in 1..Len(source.header) |-> IntVal(Digits(j - 1))]
        /\ Len(df_csv_no_heading.rows) = Len(source.rows)
        /\ Len(df_csv_no_heading.rows[1]) = Len(source.header)
        /\ \A j \in 1..Len(source.header) :
              ValueOfText(df_csv_no_heading.rows[1][j], source.rows[1][j])

C4_Witness ==
    /\ df_csv_no_heading.kind = "frame"
    /\ Len(source.header) = 2
    /\ Len(source.rows) >= 1
    /\ df_csv_no_heading.columns = <<IntVal(<<"0">>), IntVal(<<"1">>)>>

----------------------------------------------------------------------------
(* Section 1.1: the PDF document and tabula-py *)

\* PDF_doc_example.pdf: one table that runs over the pages.  A cell is the
\* sequence of the text lines printed in it; the heading row is printed once,
\* at the top of the table on the first page.
MaxPages == 2
PageRowCounts == {1, 2}
OneLine(text) == <<text>>
TwoLines(text1, text2) == <<text1, text2>>
PdfHeadings(w) ==
    IF w = 1 THEN {<<OneLine(<<"h">>)>>, <<TwoLines(<<"h">>, <<"k">>)>>}
    ELSE {<<TwoLines(<<"h">>, <<"k">>), OneLine(<<"h">>)>>}
PdfRows(w) ==
    IF w = 1 THEN {<<OneLine(<<"a">>)>>, <<TwoLines(<<"a">>, <<"b">>)>>}
    ELSE {<<OneLine(<<"a">>), OneLine(<<"b">>)>>,
          <<TwoLines(<<"a">>, <<"b">>), OneLine(<<"a">>)>>,
          <<OneLine(<<"b">>), TwoLines(<<"a">>, <<"b">>)>>}

PdfDocuments ==
    UNION {{[heading |-> h, pages |-> p] :
               h \in PdfHeadings(w),
               p \in UNION {[1..n -> UNION {[1..m -> PdfRows(w)] : m \in PageRowCounts}] :
                            n \in 1..MaxPages}} :
           w \in Widths}

\* The table rows printed on page k.
RowsOnPage(doc, k) == IF k = 1 THEN <<doc.heading>> \o doc.pages[1] ELSE doc.pages[k]

RECURSIVE Flatten(_)
Flatten(seqs) == IF seqs = <<>> THEN <<>> ELSE Head(seqs) \o Flatten(Tail(seqs))

\* The number of text lines a table row takes: that of its tallest cell.
RECURSIVE RowHeight(_)
RowHeight(row) ==
    IF row = <<>> THEN 1 ELSE Max(Len(Head(row)), RowHeight(Tail(row)))

\* Without lattice=True every text line is a row of its own: a table row
\* whose cells hold several lines is returned as several rows.
TextLines(row) ==
    [n \in 1..RowHeight(row) |->
        [j \in 1..Len(row) |-> IF n <= Len(row[j]) THEN row[j][n] ELSE <<>>]]

TextLinesOnPage(doc, k) ==
    Flatten([r \in 1..Len(RowsOnPage(doc, k)) |-> TextLines(RowsOnPage(doc, k)[r])])

\* With lattice=True a cell keeps its lines, joined by CR.
RECURSIVE JoinLines(_)
JoinLines(cell) ==
    IF cell = <<>> THEN <<>>
    ELSE IF Len(cell) = 1 THEN cell[1]
    ELSE cell[1] \o <<CR>> \o JoinLines(Tail(cell))

LatticeRow(row) == [j \in 1..Len(row) |-> JoinLines(row[j])]

NaNIfEmpty(row) == [j \in 1..Len(row) |-> IF row[j] = <<>> THEN NaN ELSE row[j]]

\* tabula-py builds one DataFrame per table: the first row gives the column
\* names, an empty name becomes "Unnamed: <n>".
FrameOfTable(rows) ==
    Frame([j \in 1..Len(rows[1]) |->
              IF rows[1][j] = <<>>
              THEN <<"Unnamed: ">> \o Digits(Cardinality({m \in 1..(j - 1) : rows[1][m] = <<>>}))
              ELSE rows[1][j]],
          0,
          [r \in 1..(Len(rows) - 1) |-> NaNIfEmpty(rows[r + 1])])

read_pdf_first_page(doc) == <<FrameOfTable(TextLinesOnPage(doc, 1))>>

\* read_pdf(path, pages='all'): every page is a table of its own.
read_pdf(doc) == [k \in 1..Len(doc.pages) |-> FrameOfTable(TextLinesOnPage(doc, k))]

read_pdf_single_table_stream(doc) ==
    <<FrameOfTable(Flatten([k \in 1..Len(doc.pages) |-> TextLinesOnPage(doc, k)]))>>

\* read_pdf(path, pages='all', multiple_tables=False, lattice=True): the rows
\* of all pages as one CSV text, which pd.read_csv turns into one DataFrame.
read_pdf_single_table(doc) ==
    LET rows == Flatten([k \in 1..Len(doc.pages) |-> RowsOnPage(doc, k)])
    IN <<read_csv(SavedAs([r \in 1..Len(rows) |-> LatticeRow(rows[r])], COMMA), COMMA)>>

notPdf == <<csvVars, docxVars, xmlVars, jsonVars, outVars, restVars>>

InitPdf ==
    /\ files \in {("PDF_doc_example.pdf" :> doc) : doc \in PdfDocuments}
    /\ pc = "read_pdf"
    /\ IdlePdf /\ IdleCsv /\ IdleDocx /\ IdleXml /\ IdleJson /\ IdleOut /\ IdleRest

\* df = read_pdf("PDF_doc_example.pdf", pages='all')
ReadPdf ==
    /\ pc = "read_pdf"
    /\ df' = read_pdf(files["PDF_doc_example.pdf"])
    /\ pc' = "read_pdf_single_table"
    /\ UNCHANGED <<files, df_single_table, notPdf>>

\* df_single_table = read_pdf(..., pages='all', multiple_tables=False, lattice=True)
ReadPdfSingleTable ==
    /\ pc = "read_pdf_single_table"
    /\ df_single_table' = read_pdf_single_table(files["PDF_doc_example.pdf"])
    /\ pc' = "pdf_to_csv"
    /\ UNCHANGED <<files, df, notPdf>>

\* df_single_table[0].to_csv("dataset_from_pdf.csv", index=False)
PdfToCsv ==
    /\ pc = "pdf_to_csv"
    /\ df_single_table[1].kind = "frame"
    /\ files' = files @@ ("dataset_from_pdf.csv" :> to_csv(df_single_table[1]))
    /\ pc' = "done_pdf"
    /\ UNCHANGED <<df, df_single_table, notPdf>>

NextPdf ==
    \/ ReadPdf
    \/ ReadPdfSingleTable
    \/ PdfToCsv

SpecPdf == InitPdf /\ [][NextPdf]_vars

(* Properties of section 1.1 *)

PdfDoc == files["PDF_doc_example.pdf"]
HeadingLines == Range(TextLines(PdfDoc.heading))

\* C5: read without multiple_tables=False, a table that spans P pages comes
\* back as exactly P record sets, one per page, and on every page after the
\* first the first record is a data row of the table, not a heading row.
C5_OneRecordSetPerPage ==
    pc # "read_pdf" =>
        /\ Len(df) = Len(PdfDoc.pages)
        /\ \A k \in 2..Len(df) :
              /\ df[k].kind = "frame"
              /\ Len(df[k].rows) = Len(TextLinesOnPage(PdfDoc, k)) - 1
              /\ df[k].rows # <<>> =>
                    /\ df[k].rows[1] = NaNIfEmpty(Flatten([r \in 1..Len(PdfDoc.pages[k]) |->
                                                      TextLines(PdfDoc.pages[k][r])])[2])
                    /\ \A h \in HeadingLines : df[k].rows[1] # NaNIfEmpty(h)

C5_Witness ==
    /\ pc = "read_pdf_single_table"
    /\ Len(PdfDoc.pages) = 2
    /\ Len(df) = 2
    /\ Len(df[2].rows) >= 1
    /\ df[2].columns = TextLines(PdfDoc.pages[2][1])[1]

\* The data rows of the table, over all the pages, top to bottom.
PdfDataRows == Flatten(PdfDoc.pages)
SingleTableRead == pc \in {"pdf_to_csv", "done_pdf"}

C12_NoLineBreakInCells ==
    SingleTableRead =>
        /\ df_single_table[1].kind = "frame"
        /\ ~HasChar(df_single_table[1], {CR, LF})

----------------------------------------------------------------------------
(* Section 1.2: the table of the DOCX document *)

\* DOCX_doc_example.docx: its first table, the rows as tuples of cell texts.
\* Row 0 is the heading; a row may have fewer cells than the heading, and a
\* heading may repeat a name.
MaxTableRows == 2
DocxCellTexts == {<<"x">>, <<"y">>}
DocxRows(texts) == UNION {[1..m -> texts] : m \in Widths}
DocxTables ==
    {<<h>> \o r : h \in DocxRows(HeadTexts),
                  r \in UNION {[1..n -> DocxRows(DocxCellTexts)] : n \in 0..MaxTableRows}}

Min(a, b) == IF a <= b THEN a ELSE b

\* A dict: the (key, value) pairs in insertion order, every key once.
dict_keys(d) == [n \in 1..Len(d) |-> d[n][1]]
dict_has(d, k) == \E n \in 1..Len(d) : d[n][1] = k
dict_get(d, k) == d[CHOOSE n \in 1..Len(d) : d[n][1] = k][2]
dict_set(d, k, v) ==
    IF dict_has(d, k)
    THEN [n \in 1..Len(d) |-> IF d[n][1] = k THEN <<k, v>> ELSE d[n]]
    ELSE Append(d, <<k, v>>)

\* dict(zip(keys, text)): the pairs up to the shorter of the two, a later
\* value replacing an earlier one under the same key.
RECURSIVE dict_zip(_, _, _)
dict_zip(ks, vs, n) ==
    IF n = 0 THEN <<>> ELSE dict_set(dict_zip(ks, vs, n - 1), ks[n], vs[n])

RECURSIVE union_keys(_)
union_keys(dicts) ==
    IF dicts = <<>> THEN <<>>
    ELSE LET before == union_keys(SubSeq(dicts, 1, Len(dicts) - 1))
             last == dict_keys(dicts[Len(dicts)])
         IN before \o SelectSeq(last, LAMBDA k : k \notin Range(before))

DataFrame_no_fill(dicts) ==
    Frame(union_keys(dicts), 0,
          [r \in 1..Len(dicts) |-> [j \in 1..Len(dicts[r]) |-> dicts[r][j][2]]])

\* pd.DataFrame(list of dicts): the columns are the keys of all the dicts in
\* order of first appearance; a record without a key gets NaN there.
DataFrame(dicts) ==
    LET columns == union_keys(dicts)
    IN Frame(columns, 0,
             [r \in 1..Len(dicts) |->
                [j \in 1..Len(columns) |->
                    IF dict_has(dicts[r], columns[j]) THEN dict_get(dicts[r], columns[j])
                    ELSE NaN]])

notDocx == <<csvVars, pdfVars, xmlVars, jsonVars, outVars, restVars>>

InitDocx ==
    /\ files \in {("DOCX_doc_example.docx" :> [tables |-> <<t>>]) : t \in DocxTables}
    /\ pc = "docx_table"
    /\ IdlePdf /\ IdleCsv /\ IdleDocx /\ IdleXml /\ IdleJson /\ IdleOut /\ IdleRest

\* document = Document(path); table = document.tables[0]; data = []; keys = None
DocxTable ==
    /\ pc = "docx_table"
    /\ table' = files["DOCX_doc_example.docx"].tables[1]
    /\ data' = <<>>
    /\ keys' = None
    /\ i' = 0
    /\ pc' = "docx_loop"
    /\ UNCHANGED <<files, df, notDocx>>

\* One pass of "for i, row in enumerate(table.rows)"; here i counts the rows
\* taken so far, so the row of this pass has index i.
DocxRow ==
    /\ pc = "docx_loop"
    /\ i < Len(table)
    /\ LET text == table[i + 1]
       IN IF i = 0
          THEN keys' = text /\ data' = data
          ELSE /\ data' = Append(data, dict_zip(keys, text, Min(Len(keys), Len(text))))
               /\ keys' = keys
    /\ i' = i + 1
    /\ UNCHANGED <<pc, files, df, table, notDocx>>

\* df = pd.DataFrame(data), once the loop has taken every row
DocxDataFrame ==
    /\ pc = "docx_loop"
    /\ i = Len(table)
    /\ df' = DataFrame(data)
    /\ pc' = "done_docx"
    /\ UNCHANGED <<files, table, keys, data, i, notDocx>>

NextDocx ==
    \/ DocxTable
    \/ DocxRow
    \/ DocxDataFrame

SpecDocx == InitDocx /\ [][NextDocx]_vars

(* Properties of section 1.2 *)

\* C9: the loop takes row 0 as the heading: a table of R rows gives R-1
\* records in table order, none of them the heading row, and record k maps
\* the j-th heading cell to the j-th cell of table row k+1.
C9_RecordPerRowByPosition ==
    pc = "done_docx" =>
        /\ keys = table[1]
        /\ Len(data) = Len(table) - 1
        /\ \A k \in 1..Len(data) : \A j \in 1..Len(table[1]) :
              /\ j <= Len(table[k + 1])
              /\ dict_has(data[k], table[1][j])
              /\ dict_get(data[k], table[1][j]) = table[k + 1][j]

KeySet(d) == Range(dict_keys(d))
\* The keys a record of a frame has: the labels of the columns it has a
\* value (NaN included) for.
RecordKeys(frame, r) == {frame.columns[j] : j \in 1..Min(Len(frame.columns), Len(frame.rows[r]))}

----------------------------------------------------------------------------
(* Section 3: validation of the XML data *)

\* The element names the schema declares for a row (two of them).
ElementNames == <<"catalogue_id", "key">>
MaxChildren == 2

\* dataset_snippet.xml: not well-formed, or one row with its child elements.
Malformed == [wellformed |-> FALSE]
XmlDocuments ==
    {Malformed} \cup
    {[wellformed |-> TRUE, children |-> c] :
        c \in UNION {[1..n -> Range(ElementNames)] : n \in 0..MaxChildren}}

\* data.xsd: not well-formed, well-formed but no schema, or an xs:sequence of
\* the element names, each with minOccurs 0 or 1 (maxOccurs is 1).
XsdDocuments ==
    {Malformed, [wellformed |-> TRUE, schema |-> FALSE]} \cup
    {[wellformed |-> TRUE, schema |-> TRUE,
      sequence |-> [n \in 1..Len(ElementNames) |-> [name |-> ElementNames[n], minOccurs |-> o[n]]]] :
        o \in [1..Len(ElementNames) -> {0, 1}]}

\* dataset_snippet_with_dtd.xml: a document with or without an internal DTD;
\* the DTD gives the content of a row as a sequence (a, b) or a choice (a | b).
DtdDocuments ==
    {Malformed} \cup
    {[wellformed |-> TRUE, dtd |-> m, children |-> d.children] :
        m \in {"none", "sequence", "choice"}, d \in XmlDocuments \ {Malformed}}

etree_parse_recover(file) ==
    IF file.wellformed THEN [kind |-> "_ElementTree", root |-> file]
    ELSE [kind |-> "_ElementTree",
          root |-> [wellformed |-> TRUE, schema |-> FALSE, children |-> <<>>]]

\* etree.parse(path): the tree of a well-formed file, XMLSyntaxError otherwise
etree_parse(file) ==
    IF file.wellformed THEN [kind |-> "_ElementTree", root |-> file]
    ELSE [kind |-> "XMLSyntaxError"]

\* etree.XMLSchema(xmlschema_doc): XMLSchemaParseError when the tree is no schema
XMLSchema(doc) ==
    IF doc.root.schema THEN [kind |-> "XMLSchema", sequence |-> doc.root.sequence]
    ELSE [kind |-> "XMLSchemaParseError"]

\* The children matched against an xs:sequence: each declared element in
\* order, once, or left out when its minOccurs is 0; nothing else.
RECURSIVE MatchesSequence(_, _)
MatchesSequence(children, sequence) ==
    IF sequence = <<>> THEN children = <<>>
    ELSE \/ /\ children # <<>>
            /\ Head(children) = Head(sequence).name
            /\ MatchesSequence(Tail(children), Tail(sequence))
         \/ /\ Head(sequence).minOccurs = 0
            /\ MatchesSequence(children, Tail(sequence))

bool(b) == IF b THEN "True" ELSE "False"

validate_known_elements(schema, doc) ==
    bool(\A n \in 1..Len(doc.root.children) :
            \E d \in 1..Len(schema.sequence) : schema.sequence[d].name = doc.root.children[n])

\* xmlschema.validate(xml_doc)
xmlschema_validate(schema, doc) ==
    bool(MatchesSequence(doc.root.children, schema.sequence))

\* The document against its internal DTD
DtdValid(file) ==
    CASE file.dtd = "none" -> FALSE
      [] file.dtd = "sequence" -> file.children = ElementNames
      [] file.dtd = "choice" -> Len(file.children) = 1

\* etree.parse(path, etree.XMLParser(dtd_validation=True))
etree_parse_dtd_validation(file) ==
    IF file.wellformed /\ DtdValid(file) THEN [kind |-> "_ElementTree", root |-> file]
    ELSE [kind |-> "XMLSyntaxError"]

notXml == <<df, csvVars, pdfVars, docxVars, jsonVars, restVars>>

InitXml ==
    /\ files \in {("data.xsd" :> x) @@ ("dataset_snippet.xml" :> d)
                    @@ ("dataset_snippet_with_dtd.xml" :> t) :
                  x \in XsdDocuments, d \in XmlDocuments, t \in DtdDocuments}
    /\ pc = "xsd_parse"
    /\ df = <<>>
    /\ IdlePdf /\ IdleCsv /\ IdleDocx /\ IdleXml /\ IdleJson /\ IdleOut /\ IdleRest

Raise_and_retry(name) ==
    /\ exception' = name
    /\ pc' = pc

\* An exception ends the cell and the run; nothing catches it.
Raise(name) ==
    /\ exception' = name
    /\ pc' = "raised"

\* xmlschema_doc = etree.parse(xsd_path)
ParseXsd ==
    /\ pc = "xsd_parse"
    /\ LET parsed == etree_parse(files["data.xsd"])
       IN IF parsed.kind = "_ElementTree"
          THEN xmlschema_doc' = parsed /\ pc' = "xmlschema" /\ UNCHANGED exception
          ELSE Raise(parsed.kind) /\ UNCHANGED xmlschema_doc
    /\ UNCHANGED <<files, xmlschema, xml_doc, result, tree, stdout, notXml>>

\* xmlschema = etree.XMLSchema(xmlschema_doc)
BuildXMLSchema ==
    /\ pc = "xmlschema"
    /\ LET built == XMLSchema(xmlschema_doc)
       IN IF built.kind = "XMLSchema"
          THEN xmlschema' = built /\ pc' = "xml_parse" /\ UNCHANGED exception
          ELSE Raise(built.kind) /\ UNCHANGED xmlschema
    /\ UNCHANGED <<files, xmlschema_doc, xml_doc, result, tree, stdout, notXml>>

\* xml_doc = etree.parse(xml_path)
ParseXml ==
    /\ pc = "xml_parse"
    /\ LET parsed == etree_parse(files["dataset_snippet.xml"])
       IN IF parsed.kind = "_ElementTree"
          THEN xml_doc' = parsed /\ pc' = "validate" /\ UNCHANGED exception
          ELSE Raise(parsed.kind) /\ UNCHANGED xml_doc
    /\ UNCHANGED <<files, xmlschema_doc, xmlschema, result, tree, stdout, notXml>>

\* result = xmlschema.validate(xml_doc); return result
Validate ==
    /\ pc = "validate"
    /\ result' = xmlschema_validate(xmlschema, xml_doc)
    /\ pc' = "print"
    /\ UNCHANGED <<files, xmlschema_doc, xmlschema, xml_doc, tree, outVars, notXml>>

\* if validate(...): print('Valid!') else: print('Not valid!')
PrintVerdict ==
    /\ pc = "print"
    /\ stdout' = Append(stdout, IF result = "True" THEN "Valid!" ELSE "Not valid!")
    /\ pc' = "dtd_parse"
    /\ UNCHANGED <<files, xmlVars, exception, notXml>>

\* parser = etree.XMLParser(dtd_validation=True); tree = etree.parse(path, parser)
ParseWithDtd ==
    /\ pc = "dtd_parse"
    /\ LET parsed == etree_parse_dtd_validation(files["dataset_snippet_with_dtd.xml"])
       IN IF parsed.kind = "_ElementTree"
          THEN tree' = parsed /\ pc' = "done_xml" /\ UNCHANGED exception
          ELSE Raise(parsed.kind) /\ UNCHANGED tree
    /\ UNCHANGED <<files, xmlschema_doc, xmlschema, xml_doc, result, stdout, notXml>>

NextXml ==
    \/ ParseXsd
    \/ BuildXMLSchema
    \/ ParseXml
    \/ Validate
    \/ PrintVerdict
    \/ ParseWithDtd

SpecXml == InitXml /\ [][NextXml]_vars

(* Properties of section 3 *)

XsdFile == files["data.xsd"]
XmlFile == files["dataset_snippet.xml"]
DtdFile == files["dataset_snippet_with_dtd.xml"]
Verdicts == {"True", "False"}
\* validate() has returned
Returned == result # None
Printed == pc \in {"dtd_parse", "done_xml"} \/ (pc = "raised" /\ stdout # <<>>)
RequiredNames == {XsdFile.sequence[n].name : n \in {m \in 1..Len(XsdFile.sequence) : XsdFile.sequence[m].minOccurs = 1}}
\* The document has the declared elements in declared order, the required
\* ones all there.
Conforming ==
    \E chosen \in SUBSET Range(ElementNames) :
        /\ RequiredNames \subseteq chosen
        /\ XmlFile.children = SelectSeq(ElementNames, LAMBDA e : e \in chosen)
MissingRequired == \E e \in RequiredNames : e \notin Range(XmlFile.children)

\* C6: validate gives true for a document that conforms to the schema and
\* false for one that lacks a required element, and the cell prints the
\* matching line.
C6_VerdictFollowsSchema ==
    /\ Returned =>
          /\ Conforming => result = "True"
          /\ MissingRequired => result = "False"
    /\ Printed => stdout = << IF result = "True" THEN "Valid!" ELSE "Not valid!" >>

C6_Witness ==
    /\ Printed
    /\ MissingRequired
    /\ result = "False"
    /\ stdout = <<"Not valid!">>

\* C7 as stated: every validation call, against the schema or the internal
\* DTD, ends with a boolean and nothing else; a malformed document gives false.
C7_OnlyBooleanVerdict ==
    /\ pc # "raised"
    /\ exception = None
    /\ pc \in {"print", "dtd_parse", "done_xml"} => result \in Verdicts
    /\ pc = "done_xml" => tree.kind = "bool"
    /\ (pc \in {"print", "dtd_parse", "done_xml"} /\ ~XmlFile.wellformed) => result = "False"

\* C7: validate returns a boolean when the schema file holds a schema and
\* the document is well-formed, and only then; a malformed document, a
\* malformed schema file or a file that is no schema raises an error and no
\* verdict is given. The parse with DTD validation gives the tree of a
\* well-formed document that is valid against its internal DTD and raises
\* XMLSyntaxError otherwise; it gives no boolean.
C7_VerdictOrError ==
    /\ Returned =>
          /\ result \in Verdicts
          /\ XsdFile.wellformed /\ XsdFile.schema /\ XmlFile.wellformed
    /\ (pc = "raised" /\ ~Returned) =>
          /\ exception = (IF ~XsdFile.wellformed THEN "XMLSyntaxError"
                          ELSE IF ~XsdFile.schema THEN "XMLSchemaParseError"
                          ELSE "XMLSyntaxError")
          /\ ~(XsdFile.wellformed /\ XsdFile.schema /\ XmlFile.wellformed)
          /\ stdout = <<>>
    /\ pc = "done_xml" =>
          /\ tree.kind = "_ElementTree"
          /\ exception = None
          /\ DtdFile.wellformed /\ DtdValid(DtdFile)
    /\ (pc = "raised" /\ Returned) =>
          /\ tree = NoTree
          /\ exception = "XMLSyntaxError"
          /\ ~(DtdFile.wellformed /\ DtdValid(DtdFile))
    /\ pc # "raised" => exception = None

C7_Witness ==
    /\ pc = "raised"
    /\ XsdFile.wellformed /\ XsdFile.schema
    /\ ~XmlFile.wellformed
    /\ exception = "XMLSyntaxError"
    /\ result = None

\* The error the library raises for the first call of the section that
\* fails, None when every call succeeds.
LibraryError ==
    IF ~XsdFile.wellformed THEN "XMLSyntaxError"
    ELSE IF ~XsdFile.schema THEN "XMLSchemaParseError"
    ELSE IF ~XmlFile.wellformed THEN "XMLSyntaxError"
    ELSE IF ~(DtdFile.wellformed /\ DtdValid(DtdFile)) THEN "XMLSyntaxError"
    ELSE None

ErrorSurfaced ==
    /\ exception # None =>
          /\ pc = "raised"
          /\ exception = LibraryError
          /\ ~XsdFile.wellformed => xmlschema_doc = NoTree
          /\ ~(XsdFile.wellformed /\ XsdFile.schema) => xmlschema = NoTree
          /\ ~(XsdFile.wellformed /\ XsdFile.schema /\ XmlFile.wellformed) =>
                xml_doc = NoTree /\ result = None /\ stdout = <<>>
          /\ tree = NoTree
    /\ pc = "raised" => exception # None
    /\ xmlschema_doc # NoTree => XsdFile.wellformed
    /\ xmlschema # NoTree => XsdFile.schema
    /\ xml_doc # NoTree => XmlFile.wellformed
    /\ tree # NoTree => DtdFile.wellformed /\ DtdValid(DtdFile)

\* C13: when a library call of the validation fails, the error it raised is
\* what the call ends with: the variable the call would have assigned and
\* the verdict stay unset, and once an error is raised no further step runs
\* (no second attempt, no recovery).
C13_ErrorSurfacedOnce == [](ErrorSurfaced) /\ [][exception = None /\ pc # "raised"]_vars

C13_Witness ==
    /\ pc = "raised"
    /\ XsdFile.wellformed /\ ~XsdFile.schema
    /\ exception = "XMLSchemaParseError"
    /\ xmlschema_doc # NoTree
    /\ xmlschema = NoTree

----------------------------------------------------------------------------
(* Section 4: the JSON data *)

\* dataset.json: an array of objects, an object the (key, value) pairs as
\* written; a value is a string or null.
MaxObjects == 2
JsonKeys == {<<"k">>, <<"t">>}
null == <<"null">>
JsonValues == {<<"x">>, null}
JsonObjects == UNION {[1..n -> JsonKeys \X JsonValues] : n \in 0..2}
JsonArrays == UNION {[1..n -> JsonObjects] : n \in 0..MaxObjects}

\* The dict of a JSON object: a repeated key keeps its last value
RECURSIVE dict_of_pairs(_)
dict_of_pairs(pairs) ==
    IF pairs = <<>> THEN <<>>
    ELSE LET last == pairs[Len(pairs)]
         IN dict_set(dict_of_pairs(SubSeq(pairs, 1, Len(pairs) - 1)), last[1], last[2])

\* json.load(f)
json_load(text) == [n \in 1..Len(text) |-> dict_of_pairs(text[n])]

\* A null is a missing value of the frame
NullToNaN(frame) ==
    [frame EXCEPT !.rows = [r \in 1..Len(frame.rows) |->
        [j \in 1..Len(frame.rows[r]) |-> IF frame.rows[r][j] = null THEN NaN ELSE frame.rows[r][j]]]]

read_json_first_keys(text) ==
    LET dicts == json_load(text)
        full == NullToNaN(DataFrame(dicts))
        n == IF dicts = <<>> THEN 0 ELSE Len(dicts[1])
    IN Frame(SubSeq(full.columns, 1, n), 0,
             [r \in 1..Len(full.rows) |-> SubSeq(full.rows[r], 1, n)])

\* pd.read_json(path, orient="records"): the frame of the list of dicts
read_json(text) == NullToNaN(DataFrame(json_load(text)))

notJson == <<df, csvVars, pdfVars, docxVars, xmlVars, outVars, restVars>>

InitJson ==
    /\ files \in {("dataset.json" :> a) : a \in JsonArrays}
    /\ pc = "read_json"
    /\ df = <<>>
    /\ IdlePdf /\ IdleCsv /\ IdleDocx /\ IdleXml /\ IdleJson /\ IdleOut /\ IdleRest

\* df_json = pd.read_json("dataset.json", orient="records")
ReadJson ==
    /\ pc = "read_json"
    /\ df_json' = read_json(files["dataset.json"])
    /\ pc' = "json_load"
    /\ UNCHANGED <<files, json_data, notJson>>

\* with open("dataset.json", "r") as f: json_data = json.load(f)
JsonLoad ==
    /\ pc = "json_load"
    /\ json_data' = json_load(files["dataset.json"])
    /\ pc' = "done_json"
    /\ UNCHANGED <<files, df_json, notJson>>

NextJson ==
    \/ ReadJson
    \/ JsonLoad

SpecJson == InitJson /\ [][NextJson]_vars

(* Properties of section 4 *)

JsonFile == files["dataset.json"]
HasKey(object, k) == \E n \in 1..Len(object) : object[n][1] = k
\* The value an object gives a key: that of the last pair with the key
ValueIn(object, k) ==
    object[CHOOSE n \in 1..Len(object) :
              object[n][1] = k /\ \A m \in (n + 1)..Len(object) : object[m][1] # k][2]

\* C8: reading an array of N objects gives N records in array order; the
\* columns are the union of the keys of all the objects, and a record has the
\* missing value where its object has no such key (or has null).
C8_RecordPerObject ==
    pc # "read_json" =>
        /\ df_json.kind = "frame"
        /\ Len(df_json.rows) = Len(JsonFile)
        /\ Cardinality(Range(df_json.columns)) = Len(df_json.columns)
        /\ Range(df_json.columns) = UNION {{o[n][1] : n \in 1..Len(o)} : o \in Range(JsonFile)}
        /\ \A r \in 1..Len(df_json.rows) :
              /\ Len(df_json.rows[r]) = Len(df_json.columns)
              /\ \A j \in 1..Len(df_json.columns) :
                    df_json.rows[r][j] =
                        IF HasKey(JsonFile[r], df_json.columns[j])
                           /\ ValueIn(JsonFile[r], df_json.columns[j]) # null
                        THEN ValueIn(JsonFile[r], df_json.columns[j])
                        ELSE NaN

C8_Witness ==
    /\ pc = "done_json"
    /\ Len(df_json.rows) = 2
    /\ Len(df_json.columns) = 2
    /\ ~HasKey(JsonFile[1], df_json.columns[2])
    /\ df_json.rows[1][2] = NaN
    /\ df_json.rows[2][2] = <<"x">>

----------------------------------------------------------------------------
(* Sections 1.2, 2.2 and 2.3: the cells that pass text through `content` *)

\* DOCX_doc_example.docx, its body: paragraphs and one table.  The cells
\* below take the table to be element 17 of the body.
PopIndex == 17
MaxAfterTable == 1
Paragraph(text) == [kind |-> "Paragraph", text |-> text]
Table == [kind |-> "Table"]
ParagraphTexts == {<<"p">>, <<"q", LF, "r">>, <<"q", CR, "r">>}
DocxBodies ==
    {<<Paragraph(t)>> \o [n \in 1..(before - 1) |-> Paragraph(<<"p">>)] \o <<Table>>
        \o [n \in 1..after |-> Paragraph(<<"s">>)] :
        t \in ParagraphTexts, before \in {PopIndex - 1, PopIndex}, after \in 0..MaxAfterTable}

\* A text file of the data folder: its characters, and whether its bytes can
\* be decoded with the encoding open() uses.
TextFile(text) == [decodable |-> TRUE, text |-> text]
Undecodable == [decodable |-> FALSE, text |-> <<>>]
XmlTexts ==
    {<<>>, <<"x", LF>>, <<"x", LF, "y", LF>>, <<"x", CR, LF, "y", LF, "z">>,
     <<"x", LF, "y", LF, "z", LF, "w", LF>>}
XsdTexts == {<<"s", LF, "t", LF>>}
DtdTexts == {<<"d", LF>>}

\* Reading in text mode: CR LF and a lone CR are read as LF.
universal_newlines(text) ==
    LET kept == SelectSeq([k \in 1..Len(text) |-> k],
                          LAMBDA k : ~(text[k] = LF /\ k > 1 /\ text[k - 1] = CR))
    IN [n \in 1..Len(kept) |-> IF text[kept[n]] = CR THEN LF ELSE text[kept[n]]]

read_untranslated(file) == file.text

\* f.read()
read(file) == universal_newlines(file.text)

read_whole(file) == IF read(file) = <<>> THEN <<>> ELSE <<read(file)>>

\* f.readlines(): the lines of the text, each with its line feed
readlines(file) ==
    LET text == read(file)
        ends == SelectSeq([k \in 1..Len(text) |-> k], LAMBDA k : text[k] = LF)
        start(n) == IF n = 1 THEN 1 ELSE ends[n - 1] + 1
        last == IF ends = <<>> THEN 0 ELSE ends[Len(ends)]
    IN [n \in 1..Len(ends) |-> SubSeq(text, start(n), ends[n])]
       \o (IF last < Len(text) THEN <<SubSeq(text, last + 1, Len(text))>> ELSE <<>>)

\* text_file.write(text) to a file opened with "w" (the line feed is written as it is)
write(text) == TextFile(text)

\* sep.join(items)
RECURSIVE str_join(_, _)
str_join(sep, items) ==
    IF items = <<>> THEN <<>>
    ELSE IF Len(items) = 1 THEN items[1]
    ELSE str_join(sep, SubSeq(items, 1, Len(items) - 1)) \o sep \o items[Len(items)]

list_pop_unchanged(list, n) == list

\* list.pop(n): the list without its element of index n (counted from 0)
list_pop(list, n) == SubSeq(list, 1, n) \o SubSeq(list, n + 2, Len(list))

\* list[a:b]
slice(list, a, b) == SubSeq(list, a + 1, Min(b, Len(list)))

release_unless_error(open, name, failed) == IF failed THEN open ELSE open \ {name}

\* The end of a with block: the file is closed, whether the block failed or not
release(open, name, failed) == open \ {name}

Generator(items) == [kind |-> "generator", rest |-> items]
Str(text) == [kind |-> "str", value |-> text]
List(items) == [kind |-> "list", value |-> items]

notRun == <<df, csvVars, pdfVars, docxVars, xmlVars, jsonVars, rdfVars, parquetVars, splitVars>>

InitRun ==
    /\ files \in {("DOCX_doc_example.docx" :> [body |-> b]) @@ ("dataset.xml" :> x)
                    @@ ("data.xsd" :> s) @@ ("dataset_snippet_with_dtd.xml" :> d) :
                  b \in DocxBodies,
                  x \in {Undecodable} \cup {TextFile(t) : t \in XmlTexts},
                  s \in {Undecodable} \cup {TextFile(t) : t \in XsdTexts},
                  d \in {Undecodable} \cup {TextFile(t) : t \in DtdTexts}}
    /\ pc = "docx_content"
    /\ IdlePdf /\ IdleCsv /\ IdleDocx /\ IdleXml /\ IdleJson /\ IdleOut /\ IdleRest

\* The numbers of the slices content[0:10], content[2:19] and content[0:20]
PrintedLines == 10
RowFirstLine == 2
RowEndLine == 19
DtdLines == 20

Docx == files["DOCX_doc_example.docx"]

\* open(path, mode) as the head of a with block
Open(name, next) ==
    /\ handles' = handles \cup {name}
    /\ pc' = next

\* An error inside a with block: the block is left, then the cell and the run
RaiseInWith(name, error) ==
    /\ handles' = release(handles, name, TRUE)
    /\ exception' = error
    /\ pc' = "raised"

\* content = Document(path).iter_inner_content()
DocxIterContent ==
    /\ pc = "docx_content"
    /\ content' = Generator(Docx.body)
    /\ pc' = "docx_list"
    /\ UNCHANGED <<files, docx_list, handles, outVars, notRun>>

\* docx_list = [el for el in content]: the generator is run to its end
DocxUnpack ==
    /\ pc = "docx_list"
    /\ docx_list' = content.rest
    /\ content' = Generator(<<>>)
    /\ pc' = "docx_pop"
    /\ UNCHANGED <<files, handles, outVars, notRun>>

\* docx_list.pop(17)
DocxPop ==
    /\ pc = "docx_pop"
    /\ IF PopIndex < Len(docx_list)
       THEN docx_list' = list_pop(docx_list, PopIndex) /\ pc' = "docx_join" /\ UNCHANGED exception
       ELSE Raise("IndexError") /\ UNCHANGED docx_list
    /\ UNCHANGED <<files, content, handles, stdout, notRun>>

\* content = '\n'.join([p.text for p in docx_list]); print(content)
DocxJoin ==
    /\ pc = "docx_join"
    /\ IF \A n \in 1..Len(docx_list) : docx_list[n].kind = "Paragraph"
       THEN /\ content' = Str(str_join(<<LF>>, [n \in 1..Len(docx_list) |-> docx_list[n].text]))
            /\ stdout' = Append(stdout, content'.value)
            /\ pc' = "text_open"
            /\ UNCHANGED exception
       ELSE Raise("AttributeError") /\ UNCHANGED <<content, stdout>>
    /\ UNCHANGED <<files, docx_list, handles, notRun>>

\* with open("text_extracted.txt", "w") as text_file: the file is created empty
TextOpen ==
    /\ pc = "text_open"
    /\ Open("text_extracted.txt", "text_write")
    /\ files' = [name \in DOMAIN files \cup {"text_extracted.txt"} |->
                    IF name = "text_extracted.txt" THEN write(<<>>) ELSE files[name]]
    /\ UNCHANGED <<textVars, outVars, notRun>>

\* text_file.write(content), and the end of the with block
TextWrite ==
    /\ pc = "text_write"
    /\ files' = [files EXCEPT !["text_extracted.txt"] = write(content.value)]
    /\ handles' = release(handles, "text_extracted.txt", FALSE)
    /\ pc' = "txt_open"
    /\ UNCHANGED <<textVars, outVars, notRun>>

\* with open("text_extracted.txt", "r") as f
TxtOpen ==
    /\ pc = "txt_open"
    /\ Open("text_extracted.txt", "txt_read")
    /\ UNCHANGED <<files, textVars, outVars, notRun>>

\* content = f.read(), the end of the with block, print(content)
TxtRead ==
    /\ pc = "txt_read"
    /\ content' = Str(read(files["text_extracted.txt"]))
    /\ handles' = release(handles, "text_extracted.txt", FALSE)
    /\ stdout' = Append(stdout, content'.value)
    /\ pc' = "xml_open"
    /\ UNCHANGED <<files, docx_list, exception, notRun>>

\* content = f.readlines() and the end of the with block
Readlines(name, next) ==
    /\ IF files[name].decodable
       THEN /\ content' = List(readlines(files[name]))
            /\ handles' = release(handles, name, FALSE)
            /\ pc' = next
            /\ UNCHANGED exception
       ELSE RaiseInWith(name, "UnicodeDecodeError") /\ UNCHANGED content
    /\ UNCHANGED <<files, docx_list, notRun>>

\* What a cell shows after its with block, nothing when the block failed
Shown(name, output) == IF files[name].decodable THEN stdout \o output ELSE stdout

\* with open("dataset.xml") as f
XmlOpen ==
    /\ pc = "xml_open"
    /\ Open("dataset.xml", "xml_readlines")
    /\ UNCHANGED <<files, textVars, outVars, notRun>>

\* content = f.readlines(); for line in content[0:10]: print(line)
XmlReadlines ==
    /\ pc = "xml_readlines"
    /\ Readlines("dataset.xml", "content_0")
    /\ stdout' = Shown("dataset.xml", slice(content'.value, 0, PrintedLines))

\* A cell that shows content[n]
ShowItem(n, next) ==
    /\ IF n < Len(content.value)
       THEN stdout' = Append(stdout, content.value[n + 1]) /\ pc' = next /\ UNCHANGED exception
       ELSE Raise("IndexError") /\ UNCHANGED stdout
    /\ UNCHANGED <<files, textVars, handles, notRun>>

\* content[0]
ShowProlog ==
    /\ pc = "content_0"
    /\ ShowItem(0, "content_1")

\* content[1]
ShowRoot ==
    /\ pc = "content_1"
    /\ ShowItem(1, "content_2_19")

\* content[2:19]
ShowFirstRow ==
    /\ pc = "content_2_19"
    /\ stdout' = Append(stdout, slice(content.value, RowFirstLine, RowEndLine))
    /\ pc' = "xsd_open"
    /\ UNCHANGED <<files, textVars, handles, exception, notRun>>

\* with open("data.xsd") as f
XsdOpen ==
    /\ pc = "xsd_open"
    /\ Open("data.xsd", "xsd_readlines")
    /\ UNCHANGED <<files, textVars, outVars, notRun>>

\* content = f.readlines(); content
XsdReadlines ==
    /\ pc = "xsd_readlines"
    /\ Readlines("data.xsd", "dtd_open")
    /\ stdout' = Shown("data.xsd", <<content'.value>>)

\* with open("dataset_snippet_with_dtd.xml") as f
DtdOpen ==
    /\ pc = "dtd_open"
    /\ Open("dataset_snippet_with_dtd.xml", "dtd_readlines")
    /\ UNCHANGED <<files, textVars, outVars, notRun>>

\* content = f.readlines(); content[0:20]
DtdReadlines ==
    /\ pc = "dtd_readlines"
    /\ Readlines("dataset_snippet_with_dtd.xml", "done_run")
    /\ stdout' = Shown("dataset_snippet_with_dtd.xml", <<slice(content'.value, 0, DtdLines)>>)

NextRun ==
    \/ DocxIterContent
    \/ DocxUnpack
    \/ DocxPop
    \/ DocxJoin
    \/ TextOpen
    \/ TextWrite
    \/ TxtOpen
    \/ TxtRead
    \/ XmlOpen
    \/ XmlReadlines
    \/ ShowProlog
    \/ ShowRoot
    \/ ShowFirstRow
    \/ XsdOpen
    \/ XsdReadlines
    \/ DtdOpen
    \/ DtdReadlines

SpecRun == InitRun /\ [][NextRun]_vars

(* Properties of the text cells *)

\* The statements inside a with block, and the file each block has open
InWith ==
    [text_write |-> "text_extracted.txt", txt_read |-> "text_extracted.txt",
     xml_readlines |-> "dataset.xml", xsd_readlines |-> "data.xsd",
     dtd_readlines |-> "dataset_snippet_with_dtd.xml"]

InputFiles == {"DOCX_doc_example.docx", "dataset.xml", "data.xsd", "dataset_snippet_with_dtd.xml"}
Assigning ==
    {"docx_content", "docx_list", "docx_join", "txt_read",
     "xml_readlines", "xsd_readlines", "dtd_readlines"}

CellEffects ==
    /\ \A name \in InputFiles : files'[name] = files[name]
    /\ pc = "docx_list" =>
          /\ content.kind = "generator" /\ content.rest = docx_list'
          /\ content' = Generator(<<>>)
    /\ (pc = "docx_pop" /\ pc' # "raised") =>
          /\ Len(docx_list') = Len(docx_list) - 1
          /\ \A n \in 1..Len(docx_list') :
                docx_list'[n] = IF n <= PopIndex THEN docx_list[n] ELSE docx_list[n + 1]
    /\ docx_list' # docx_list => pc \in {"docx_list", "docx_pop"}
    /\ content' # content => pc \in Assigning

IsLinesOf(lines, text) ==
    /\ str_join(<<>>, lines) = text
    /\ \A n \in 1..Len(lines) :
          /\ lines[n] # <<>>
          /\ \A k \in 1..(Len(lines[n]) - 1) : lines[n][k] # LF
          /\ n < Len(lines) => lines[n][Len(lines[n])] = LF
HoldsLinesOf(name) ==
    /\ content.kind = "list"
    /\ IsLinesOf(content.value, read(files[name]))
LastShown == stdout[Len(stdout)]

\* C19: in a run from top to bottom, content[0], content[1] and
\* content[2:19] read the lines of dataset.xml: content holds them from the
\* dataset.xml cell up to the data.xsd cell, the three cells show its lines 0,
\* 1 and 2 to 18, and the lines of data.xsd and of
\* dataset_snippet_with_dtd.xml are assigned only afterwards.
C19_ReadsSeeXmlLines ==
    /\ pc \in {"content_0", "content_1", "content_2_19", "xsd_open", "xsd_readlines"} =>
          HoldsLinesOf("dataset.xml")
    /\ pc = "content_1" => LastShown = content.value[1]
    /\ pc = "content_2_19" => LastShown = content.value[2]
    /\ pc = "xsd_open" =>
          LastShown = [n \in 1..(Min(RowEndLine, Len(content.value)) - RowFirstLine) |->
                          content.value[n + RowFirstLine]]
    /\ pc \in {"dtd_open", "dtd_readlines"} => HoldsLinesOf("data.xsd")
    /\ pc = "done_run" => HoldsLinesOf("dataset_snippet_with_dtd.xml")

C19_Witness ==
    /\ pc = "xsd_open"
    /\ Len(content.value) = 4
    /\ LastShown = <<content.value[3], content.value[4]>>
    /\ content.value # readlines(files["data.xsd"])

\* The text of the elements left in docx_list, joined by line feeds
JoinedText == str_join(<<LF>>, [n \in 1..Len(docx_list) |-> docx_list[n].text])
Written ==
    /\ "text_extracted.txt" \in DOMAIN files
    /\ files["text_extracted.txt"] = TextFile(JoinedText)
    /\ "text_extracted.txt" \notin handles
TxtWasRead == pc \in {"xml_open", "xml_readlines"}

\* C20 as stated: text_extracted.txt is written and closed before the TXT
\* cell opens it, and the string read back is the string that was written.
C20_ReadBackEqualsWritten ==
    /\ pc = "txt_open" => Written
    /\ TxtWasRead => content = Str(JoinedText)

\* C20: text_extracted.txt is written and closed before the TXT cell opens
\* it; the string read back is the string written when that holds no
\* carriage return, and otherwise the string written with every lone
\* carriage return turned into a line feed.
C20_ReadBackUpToNewlines ==
    /\ pc = "txt_open" => Written
    /\ pc \in {"docx_content", "docx_list", "docx_pop", "docx_join", "text_open"} =>
          "text_extracted.txt" \notin DOMAIN files
    /\ TxtWasRead =>
          /\ content.kind = "str"
          /\ CR \notin Range(JoinedText) => content.value = JoinedText
          /\ content.value = [n \in 1..Len(JoinedText) |->
                                 IF JoinedText[n] = CR THEN LF ELSE JoinedText[n]]

C20_Witness ==
    /\ pc = "xml_open"
    /\ Len(docx_list) >= PopIndex
    /\ CR \in Range(JoinedText)
    /\ content.value # JoinedText
    /\ files["text_extracted.txt"].text = JoinedText

----------------------------------------------------------------------------
(* Section 2.5: the RDF graph *)

\* The RDF document behind the URI: the triples in the order they are
\* written, the same triple possibly more than once.  The server may be out
\* of reach, and the document may break off with a syntax error after some
\* triples.
MaxTriples == 3
Subjects == {"s1", "s2"}
Predicates == {"p1", "p2"}
Objects == {"o1"}
Triples == Subjects \X Predicates \X Objects
RdfUri == "https://data.ny.gov/api/views/vk8g-ypxi/rows.rdf?accessType=DOWNLOAD"
RdfDocuments ==
    {[reachable |-> FALSE]} \cup
    {[reachable |-> TRUE, wellformed |-> w, triples |-> t] :
        w \in BOOLEAN, t \in UNION {[1..n -> Triples] : n \in 0..MaxTriples}}

store_add_again(store, triple) == Append(store, triple)

\* Graph.add(triple): the store keeps a triple once
store_add(store, triple) ==
    IF \E n \in 1..Len(store) : store[n] = triple THEN store ELSE Append(store, triple)

RECURSIVE store_add_all(_, _)
store_add_all(store, triples) ==
    IF triples = <<>> THEN store
    ELSE store_add_all(store_add(store, Head(triples)), Tail(triples))

\* len(g)
store_len(store) == Len(store)

\* The orders in which the store may give its triples
Orders(store) ==
    {o \in [1..Len(store) -> 1..Len(store)] : \A a, b \in 1..Len(store) : a # b => o[a] # o[b]}

select_subjects(store, order) == [n \in 1..Len(store) |-> store[order[n]][1]]

\* select ?predicates where {?s ?predicates ?o}: one row for every triple
select_predicates(store, order) == [n \in 1..Len(store) |-> store[order[n]][2]]

notRdf == <<df, csvVars, pdfVars, docxVars, xmlVars, jsonVars, textVars, parquetVars, splitVars>>

InitRdf ==
    /\ files \in {(RdfUri :> d) : d \in RdfDocuments}
    /\ pc = "rdf_parse"
    /\ IdlePdf /\ IdleCsv /\ IdleDocx /\ IdleXml /\ IdleJson /\ IdleOut /\ IdleRest

\* g = Graph(); g.parse(uri): the connection is closed when parse is over,
\* the triples read before a syntax error stay in the graph
RdfParse ==
    /\ pc = "rdf_parse"
    /\ IF ~files[RdfUri].reachable
       THEN Raise("URLError") /\ UNCHANGED <<g, handles>>
       ELSE /\ g' = store_add_all(<<>>, files[RdfUri].triples)
            /\ handles' = release(handles \cup {RdfUri}, RdfUri, ~files[RdfUri].wellformed)
            /\ IF files[RdfUri].wellformed
               THEN pc' = "rdf_len" /\ UNCHANGED exception
               ELSE Raise("SAXParseException")
    /\ UNCHANGED <<files, predicate_query, stdout, notRdf>>

\* print(len(g))
RdfLen ==
    /\ pc = "rdf_len"
    /\ stdout' = Append(stdout, store_len(g))
    /\ pc' = "rdf_query"
    /\ UNCHANGED <<files, rdfVars, handles, exception, notRdf>>

\* predicate_query = g.query(...); for row in predicate_query: print('%s' % row)
RdfQuery ==
    /\ pc = "rdf_query"
    /\ \E order \in Orders(g) : predicate_query' = select_predicates(g, order)
    /\ stdout' = stdout \o predicate_query'
    /\ pc' = "done_rdf"
    /\ UNCHANGED <<files, g, handles, exception, notRdf>>

NextRdf ==
    \/ RdfParse
    \/ RdfLen
    \/ RdfQuery

SpecRdf == InitRdf /\ [][NextRdf]_vars

(* Properties of section 2.5 *)

RdfDoc == files[RdfUri]
Parsed == pc \in {"rdf_len", "rdf_query", "done_rdf"}
Count(items, x) == Cardinality({n \in 1..Len(items) : items[n] = x})

\* C17: the graph is a set of triples: after the parse every triple of the
\* source is in the graph exactly once, however often the source has it,
\* nothing else is in it, and len(g) is the number of distinct triples.
C17_GraphIsSet ==
    Parsed =>
        /\ \A t \in Triples : Count(g, t) = (IF t \in Range(RdfDoc.triples) THEN 1 ELSE 0)
        /\ store_len(g) = Cardinality(Range(RdfDoc.triples))
        /\ pc # "rdf_len" => stdout[1] = Cardinality(Range(RdfDoc.triples))

C17_Witness ==
    /\ pc = "rdf_query"
    /\ \E a, b \in 1..Len(RdfDoc.triples) : a # b /\ RdfDoc.triples[a] = RdfDoc.triples[b]
    /\ Len(RdfDoc.triples) = 3
    /\ stdout = <<2>>

\* C18: the query gives the predicates of the graph and nothing else; a
\* predicate is in the result once for every triple it occurs in.
C18_PredicatesOfGraph ==
    pc = "done_rdf" =>
        /\ Range(predicate_query) = {t[2] : t \in Range(g)}
        /\ \A q \in Predicates :
              Count(predicate_query, q) = Cardinality({t \in Range(g) : t[2] = q})
        /\ stdout = <<store_len(g)>> \o predicate_query

C18_Witness ==
    /\ pc = "done_rdf"
    /\ Range(predicate_query) = {"p1"}
    /\ Len(predicate_query) = 2
    /\ \E t \in Range(g) : t[1] = "s2"

----------------------------------------------------------------------------
(* Section 2.6: the Parquet file *)

\* A Parquet file: the columns one after the other, each with its name and
\* its typed values.
to_parquet(frame) ==
    [num_rows |-> Len(frame.rows),
     columns |-> [j \in 1..Len(frame.columns) |->
                    [name |-> frame.columns[j],
                     values |-> [r \in 1..Len(frame.rows) |-> frame.rows[r][j]]]]]

\* dataset.parquet holds the data set of dataset.csv.  It was written either
\* from the frame pd.read_csv gives (the types CSV inference chose), or from
\* the cells as the strings they are.
ParquetFiles(ds) ==
    {to_parquet(read_csv(SavedAs(<<ds.header>> \o ds.rows, COMMA), COMMA)),
     to_parquet(Frame(ds.header, 0, ds.rows))}

\* The key values asked for; the key column is the one named "k".
KeyColumn == <<"k">>
QueryValues == {<<"a">>, <<"0", "1">>, <<"1">>}

read_parquet_by_column(file) ==
    Frame([j \in 1..Len(file.columns) |-> file.columns[j].name], 0,
          [j \in 1..Len(file.columns) |-> file.columns[j].values])

\* pd.read_parquet(path, engine='fastparquet'): the rows put together from
\* the columns
read_parquet(file) ==
    Frame([j \in 1..Len(file.columns) |-> file.columns[j].name], 0,
          [r \in 1..file.num_rows |-> [j \in 1..Len(file.columns) |-> file.columns[j].values[r]]])

\* frame.query("key == @val"): the rows whose key is the string val
query(frame, value) ==
    IF \A j \in 1..Len(frame.columns) : frame.columns[j] # KeyColumn
    THEN Raised("UndefinedVariableError")
    ELSE LET key == CHOOSE j \in 1..Len(frame.columns) : frame.columns[j] = KeyColumn
         IN Frame(frame.columns, frame.leading,
                  SelectSeq(frame.rows, LAMBDA row : row[key + frame.leading] = value))

notParquet == <<df, df_csv_comma_sep, df_csv_semicolon_sep, df_csv_no_heading, df_reread,
                pdfVars, docxVars, xmlVars, jsonVars, outVars, textVars, rdfVars, handles, splitVars>>

InitParquet ==
    /\ source \in {ds \in DataSets :
                      \A j, k \in 1..Len(ds.header) : ds.header[j] = ds.header[k] => j = k}
    /\ files \in {("dataset.csv" :> SavedAs(<<source.header>> \o source.rows, COMMA))
                    @@ ("dataset.parquet" :> f) : f \in ParquetFiles(source)}
    /\ pc = "parquet_read_csv"
    /\ df_csv_comma_sep = Unset
    /\ df_csv_semicolon_sep = Unset
    /\ df_csv_no_heading = Unset
    /\ df_reread = Unset
    /\ IdlePdf /\ IdleDocx /\ IdleXml /\ IdleJson /\ IdleOut /\ IdleRest

\* df_csv = pd.read_csv("dataset.csv")
ParquetReadCsv ==
    /\ pc = "parquet_read_csv"
    /\ df_csv' = read_csv(files["dataset.csv"], COMMA)
    /\ pc' = "read_parquet"
    /\ UNCHANGED <<files, source, df_parquet, val, query_csv, query_parquet, notParquet>>

\* df_parquet = pd.read_parquet("dataset.parquet", engine='fastparquet')
ReadParquet ==
    /\ pc = "read_parquet"
    /\ df_parquet' = read_parquet(files["dataset.parquet"])
    /\ pc' = "query_csv"
    /\ UNCHANGED <<files, source, df_csv, val, query_csv, query_parquet, notParquet>>

\* val = "..."; df_csv.query("key == @val")
QueryCsv ==
    /\ pc = "query_csv"
    /\ val' \in QueryValues
    /\ query_csv' = query(df_csv, val')
    /\ pc' = "query_parquet"
    /\ UNCHANGED <<files, source, df_csv, df_parquet, query_parquet, notParquet>>

\* df_parquet.query("key == @val")
QueryParquet ==
    /\ pc = "query_parquet"
    /\ query_parquet' = query(df_parquet, val)
    /\ pc' = "done_parquet"
    /\ UNCHANGED <<files, source, df_csv, df_parquet, val, query_csv, notParquet>>

NextParquet ==
    \/ ParquetReadCsv
    \/ ReadParquet
    \/ QueryCsv
    \/ QueryParquet

SpecParquet == InitParquet /\ [][NextParquet]_vars

(* Properties of section 2.6 *)

ParquetFile == files["dataset.parquet"]

WrittenFromCsvFrame == ParquetFile = to_parquet(df_csv)

----------------------------------------------------------------------------
(* Section 2.2: the data set description taken out of the text *)

partition1 == <<"D", "a", "t", "a", "s", "e", "t", " ", "D", "e", "s", "c", "r", "i", "p", "t", "i", "o", "n">>
partition2 == <<"K", "e", "y", "w", "o", "r", "d", "s">>

\* The text read from text_extracted.txt: pieces put one after the other, a
\* piece being a heading, the beginning of a heading or other text.
MaxPieces == 3
Pieces == {partition1, partition2, <<"x">>, <<"D", "a", "t", "a", "s", "e", "t", " ">>, <<"K", "e", "y">>}
Texts == {Flatten(t) : t \in UNION {[1..n -> Pieces] : n \in 0..MaxPieces}}

\* Whether sep stands in text at position k
At(text, sep, k) == k + Len(sep) - 1 <= Len(text) /\ SubSeq(text, k, k + Len(sep) - 1) = sep

RECURSIVE rfind(_, _, _)
rfind(text, sep, k) ==
    IF k < 1 THEN 0
    ELSE IF At(text, sep, k) THEN k
    ELSE rfind(text, sep, k - 1)

\* str.find: the first position of sep in text, from position k on; 0 if none
RECURSIVE find(_, _, _)
find(text, sep, k) ==
    IF k + Len(sep) - 1 > Len(text) THEN 0
    ELSE IF At(text, sep, k) THEN k
    ELSE find(text, sep, k + 1)

rsplit_once(text, sep) ==
    LET k == rfind(text, sep, Len(text))
    IN IF k = 0 THEN <<text>>
       ELSE <<SubSeq(text, 1, k - 1), SubSeq(text, k + Len(sep), Len(text))>>

\* text.split(sep, 1): the text before and after the first sep, or the text alone
split_once(text, sep) ==
    LET k == find(text, sep, 1)
    IN IF k = 0 THEN <<text>>
       ELSE <<SubSeq(text, 1, k - 1), SubSeq(text, k + Len(sep), Len(text))>>

\* text.partition(sep)
str_partition(text, sep) ==
    LET parts == split_once(text, sep)
    IN IF Len(parts) = 1 THEN <<text, <<>>, <<>>>> ELSE <<parts[1], sep, parts[2]>>

Tuple(items) == [kind |-> "tuple", value |-> items]

notSplit == <<df, csvVars, pdfVars, docxVars, xmlVars, jsonVars, rdfVars, parquetVars>>

\* The state after the cell that reads text_extracted.txt
InitSplit ==
    /\ content \in {Str(t) : t \in Texts}
    /\ files = ("text_extracted.txt" :> TextFile(content.value))
    /\ pc = "partition"
    /\ docx_list = <<>>
    /\ handles = {}
    /\ IdlePdf /\ IdleCsv /\ IdleDocx /\ IdleXml /\ IdleJson /\ IdleOut
    /\ IdleRdf /\ IdleParquet /\ IdleSplit

\* words = content.partition(partition1)
Partition ==
    /\ pc = "partition"
    /\ words' = Tuple(str_partition(content.value, partition1))
    /\ pc' = "after_heading1"
    /\ UNCHANGED <<files, textVars, handles, outVars, words_after_heading1,
                   words_before_heading2, notSplit>>

\* words_after_heading1 = content.split(partition1, 1)[1]
AfterHeading1 ==
    /\ pc = "after_heading1"
    /\ LET parts == split_once(content.value, partition1)
       IN IF Len(parts) > 1
          THEN /\ words_after_heading1' = Str(parts[2])
               /\ pc' = "before_heading2"
               /\ UNCHANGED exception
          ELSE Raise("IndexError") /\ UNCHANGED words_after_heading1
    /\ UNCHANGED <<files, textVars, handles, stdout, words, words_before_heading2, notSplit>>

\* words_before_heading2 = words_after_heading1.split(partition2, 1)[0]; print(words_before_heading2)
BeforeHeading2 ==
    /\ pc = "before_heading2"
    /\ words_before_heading2' = Str(split_once(words_after_heading1.value, partition2)[1])
    /\ stdout' = Append(stdout, words_before_heading2'.value)
    /\ pc' = "done_split"
    /\ UNCHANGED <<files, textVars, handles, exception, words, words_after_heading1, notSplit>>

NextSplit ==
    \/ Partition
    \/ AfterHeading1
    \/ BeforeHeading2

SpecSplit == InitSplit /\ [][NextSplit]_vars

(* Properties of section 2.2 *)

Text == content.value
Contains(text, sep) == \E k \in 1..Len(text) : At(text, sep, k)
\* The text after the first partition1 of the whole text
AfterFirstHeading ==
    LET k == CHOOSE n \in 1..Len(Text) :
                 At(Text, partition1, n) /\ \A m \in 1..(n - 1) : ~At(Text, partition1, m)
    IN SubSeq(Text, k + Len(partition1), Len(Text))
CellOver == pc \in {"done_split", "raised"}

\* C21: for a text that holds "Dataset Description" the cell gives the text
\* between the first "Dataset Description" and the first "Keywords" after
\* it, the whole rest when no "Keywords" follows; for a text without
\* "Dataset Description" the cell ends in an IndexError and gives no value.
C21_SectionBetweenHeadings ==
    CellOver =>
        IF Contains(Text, partition1)
        THEN /\ pc = "done_split"
             /\ exception = None
             /\ words_before_heading2.kind = "str"
             /\ stdout = <<words_before_heading2.value>>
             /\ LET section == words_before_heading2.value
                    rest == AfterFirstHeading
                IN /\ Len(section) <= Len(rest)
                   /\ section = SubSeq(rest, 1, Len(section))
                   /\ \A k \in 1..Len(section) : ~At(rest, partition2, k)
                   /\ IF Contains(rest, partition2)
                      THEN At(rest, partition2, Len(section) + 1)
                      ELSE section = rest
        ELSE /\ pc = "raised"
             /\ exception = "IndexError"
             /\ words_after_heading1 = NotAssigned
             /\ words_before_heading2 = NotAssigned
             /\ stdout = <<>>

C21_Witness ==
    /\ pc = "done_split"
    /\ Text = partition1 \o <<"x">> \o partition2
    /\ words_before_heading2 = Str(<<"x">>)
    /\ words.value = << <<>>, partition1, <<"x">> \o partition2 >>

====
